---- MODULE Spec2Model ----
(***************************************************************************)
(* Simple Recipe API: the five /recipes handlers (routes_recipes.py), the  *)
(* payload models (models.py) and the persistence adapter (db.py), run by  *)
(* concurrent request workers against one PostgreSQL table.                *)
(*                                                                         *)
(* A text value is represented by its length (the unary string of that     *)
(* length); a payload is a function from the fields it carries to text     *)
(* values, so a missing field is a field outside its DOMAIN.               *)
(***************************************************************************)
EXTENDS Integers, Sequences, FiniteSets, TLC

\* ---------------------------------------------------------------- bounds
\* Highest value the id sequence of the table hands out in a run.
MaxId == 2

\* The requests the hosting framework handles in parallel: two workers,
\* so every interleaving of two requests is explored.
Workers == {"w1", "w2"}
RecipeIds == 1..MaxId

\* ------------------------------------------------------ models.py
TitleMaxLen == 200
DescriptionMaxLen == 2000
MinLen == 1

Fields == {"title", "description", "ingredients", "instructions"}

\* RecipeBase without the lower length bound (a faulty variant of RecipeBase).
RecipeBaseNoMin(p) ==
    /\ DOMAIN p = Fields
    /\ p["title"] <= TitleMaxLen
    /\ p["description"] <= DescriptionMaxLen

\* RecipeBase without the upper length bounds (a faulty variant of RecipeBase).
RecipeBaseNoMax(p) ==
    /\ DOMAIN p = Fields
    /\ \A f \in Fields : p[f] >= MinLen

\* RecipeBase: every field is required (Field(...)), min_length=1 on all
\* four, max_length on title and description only.
RecipeBase(p) ==
    /\ DOMAIN p = Fields
    /\ p["title"] >= MinLen /\ p["title"] <= TitleMaxLen
    /\ p["description"] >= MinLen /\ p["description"] <= DescriptionMaxLen
    /\ p["ingredients"] >= MinLen
    /\ p["instructions"] >= MinLen

RecipeCreate(p) == RecipeBase(p)

RecipeUpdate(p) == RecipeBase(p)

\* RecipeOut: RecipeBase plus a required integer id.
RecipeOut(r) ==
    /\ DOMAIN r = Fields \cup {"id"}
    /\ r["id"] \in Int
    /\ RecipeBase([f \in Fields |-> r[f]])

\* ------------------------------------------------------ request inputs
Payload(t, d, g, s) ==
    [f \in Fields |-> CASE f = "title" -> t
                        [] f = "description" -> d
                        [] f = "ingredients" -> g
                        [] f = "instructions" -> s]

SoupV1 == Payload(1, 1, 1, 2)
SoupV2 == Payload(TitleMaxLen, DescriptionMaxLen, 2, 3)

ValidPayloads == {SoupV1, SoupV2}

Without(p, f) == [g \in (DOMAIN p) \ {f} |-> p[g]]

InvalidPayloads ==
    {Without(SoupV2, f) : f \in Fields}
        \cup {[SoupV2 EXCEPT ![f] = 0] : f \in Fields}
        \cup {[SoupV2 EXCEPT !["title"] = TitleMaxLen + 1],
              [SoupV2 EXCEPT !["description"] = DescriptionMaxLen + 1]}

Payloads == ValidPayloads \cup InvalidPayloads

NoPayload == [nopayload |-> TRUE]
NoRow == [norow |-> TRUE]
NoBody == [nobody |-> TRUE]

\* ------------------------------------------------------ HTTP statuses
HTTP_200_OK == 200
HTTP_201_CREATED == 201
HTTP_404_NOT_FOUND == 404
HTTP_422_UNPROCESSABLE == 422
HTTP_500_SERVER_ERROR == 500

NotFoundBody == [detail |-> "Recipe not found"]
ValidationBody == [detail |-> "validation error"]
ServerErrorBody == [detail |-> "Internal Server Error"]

Response(s, b) == [status |-> s, body |-> b]

\* ------------------------------------------------------ state
VARIABLES
    dbUrlSet,   \* whether DATABASE_URL is set in the environment
    table,      \* the committed rows of table recipes
    seq,        \* next value of the id sequence of the table
    pc,         \* per worker: idle, validated, open, executed, done
    op,         \* per worker: the handler of the request in progress
    rid,        \* per worker: the recipe_id path parameter (0: none)
    payload,    \* per worker: the request body (NoPayload: none)
    row,        \* per worker: the row fetched from an uncommitted write
    status,     \* per worker: the HTTP status of the response (0: none)
    body,       \* per worker: the response body
    raised,     \* per worker: what the adapter raised: none, no_url,
                \*   connect, execute, commit (database faults), empty
    opened,     \* per worker: connections opened by the request
    closed,     \* per worker: connections closed by the request
    commits,    \* per worker: commits issued by the request
    deleted     \* history: the ids whose DELETE has been committed

vars == <<dbUrlSet, table, seq, pc, op, rid, payload, row, status, body,
          raised, opened, closed, commits, deleted>>

env == <<dbUrlSet>>
store == <<table, seq>>
conn == <<opened, closed, commits>>

Ids(t) == {r["id"] : r \in t}

\* ------------------------------------------------------ the SQL statements
\* A cursor result is a sequence of rows; a write statement also yields
\* the table it leaves once its transaction commits.

RECURSIVE OrderByIdAsc(_)
\* ORDER BY id ASC (a faulty variant of OrderByIdDesc).
OrderByIdAsc(rows) ==
    IF rows = {} THEN <<>>
    ELSE LET m == CHOOSE r \in rows : \A q \in rows : q["id"] >= r["id"]
         IN <<m>> \o OrderByIdAsc(rows \ {m})

RECURSIVE OrderByIdDesc(_)
\* ORDER BY id DESC.
OrderByIdDesc(rows) ==
    IF rows = {} THEN <<>>
    ELSE LET m == CHOOSE r \in rows : \A q \in rows : q["id"] <= r["id"]
         IN <<m>> \o OrderByIdDesc(rows \ {m})

\* SELECT id, title, description, ingredients, instructions FROM recipes
\* ORDER BY id DESC
SqlSelectAll(t) == OrderByIdDesc(t)

\* SELECT ... FROM recipes WHERE id = %s, with params (recipe_id,)
SqlSelectById(t, params) == OrderByIdDesc({r \in t : r["id"] = params[1]})

\* The id column has no value in the INSERT: the table fills it from its
\* sequence, which never hands a value out twice.
Nextval(s) == [value |-> s, next |-> s + 1]

\* INSERT INTO recipes (title, description, ingredients, instructions)
\* VALUES (%s, %s, %s, %s) RETURNING id, title, description, ingredients,
\* instructions
SqlInsert(t, newId, params) ==
    LET new == [id |-> newId, title |-> params[1],
                description |-> params[2],
                ingredients |-> params[3],
                instructions |-> params[4]]
    IN [rows |-> <<new>>, next |-> t \cup {new}]

\* UPDATE that leaves the title column alone (a faulty variant of SqlUpdate: a
\* merge with the prior values).
SqlUpdateMerge(t, params) ==
    LET set(r) == [r EXCEPT !["description"] = params[2],
                            !["ingredients"] = params[3],
                            !["instructions"] = params[4]]
        hit == {r \in t : r["id"] = params[5]}
    IN [rows |-> OrderByIdDesc({set(r) : r \in hit}),
        next |-> (t \ hit) \cup {set(r) : r \in hit}]

\* UPDATE recipes SET title = %s, description = %s, ingredients = %s,
\* instructions = %s WHERE id = %s RETURNING ...
SqlUpdate(t, params) ==
    LET set(r) == [r EXCEPT !["title"] = params[1],
                            !["description"] = params[2],
                            !["ingredients"] = params[3],
                            !["instructions"] = params[4]]
        hit == {r \in t : r["id"] = params[5]}
    IN [rows |-> OrderByIdDesc({set(r) : r \in hit}),
        next |-> (t \ hit) \cup {set(r) : r \in hit}]

\* DELETE FROM recipes WHERE id = %s RETURNING ...
SqlDelete(t, params) ==
    LET hit == {r \in t : r["id"] = params[1]}
    IN [rows |-> OrderByIdDesc(hit), next |-> t \ hit]

\* ------------------------------------------------------ db.py
\* What an adapter call hands to its caller: a value or an exception.
Ok(v) == [kind |-> "ok", value |-> v]
Raise(e, c) == [kind |-> "raise", exc |-> e, cause |-> c]

Cause(out) == IF out["kind"] = "raise" THEN out["cause"] ELSE "none"

\* _get_database_url: RuntimeError when DATABASE_URL is unset or empty.
_get_database_url(urlSet) ==
    IF ~urlSet THEN Raise("RuntimeError", "no_url") ELSE Ok(TRUE)

\* psycopg2 raises subclasses of psycopg2.Error, none a RuntimeError.
DbFault(c) == Raise("psycopg2.Error", c)

\* get_connection without try/finally: the connection is closed only when
\* the body of the with block returns (a faulty variant of get_connection_exit).
get_connection_exit_no_finally(out) ==
    IF out["kind"] = "raise" THEN 0 ELSE 1

\* get_connection, leaving the with block: finally: conn.close(), so one
\* close whatever the body did.
get_connection_exit(out) == 1

\* dict(r) for r a RealDictRow.
dict(r) == [k \in DOMAIN r |-> r[k]]

\* fetch_all: return [dict(r) for r in rows]
fetch_all(rows) == Ok([k \in 1..Len(rows) |-> dict(rows[k])])

\* fetch_one: return dict(row) if row else None
fetch_one(rows) == Ok(IF rows = <<>> THEN NoRow ELSE dict(rows[1]))

\* execute_returning_one: row = cur.fetchone(); if not row: raise
\* RuntimeError; (commit;) return dict(row)
execute_returning_one(rows) ==
    IF rows = <<>> THEN Raise("RuntimeError", "empty") ELSE Ok(dict(rows[1]))

\* ------------------------------------------------------ routes_recipes.py
\* An exception no handler catches: the framework answers 500.
Unhandled(out) == Response(HTTP_500_SERVER_ERROR, ServerErrorBody)

\* _row_to_recipe_out with ingredients and instructions exchanged (a
\* faulty variant of _row_to_recipe_out).
_row_to_recipe_out_swapped(r) ==
    [id |-> r["id"], title |-> r["title"], description |-> r["description"],
     ingredients |-> r["instructions"], instructions |-> r["ingredients"]]

\* _row_to_recipe_out: RecipeOut(id=row["id"], title=row["title"], ...)
_row_to_recipe_out(r) ==
    [id |-> r["id"], title |-> r["title"], description |-> r["description"],
     ingredients |-> r["ingredients"], instructions |-> r["instructions"]]

\* Returning a RecipeOut: its construction validates the fields, and a
\* ValidationError is an unhandled exception.
Returns(s, r) ==
    IF RecipeOut(r) THEN Response(s, r)
    ELSE Response(HTTP_500_SERVER_ERROR, ServerErrorBody)

\* list_recipes: return [_row_to_recipe_out(r) for r in rows]
list_recipes(out) ==
    IF out["kind"] = "raise" THEN Unhandled(out)
    ELSE LET rows == out["value"]
             outs == [k \in 1..Len(rows) |-> _row_to_recipe_out(rows[k])]
         IN IF \A k \in 1..Len(outs) : RecipeOut(outs[k])
            THEN Response(HTTP_200_OK, outs)
            ELSE Response(HTTP_500_SERVER_ERROR, ServerErrorBody)

\* create_recipe: the parameter tuple of the INSERT.
create_recipe_params(p) ==
    <<p["title"], p["description"], p["ingredients"], p["instructions"]>>

\* create_recipe: return _row_to_recipe_out(row), status 201.
create_recipe(out) ==
    IF out["kind"] = "raise" THEN Unhandled(out)
    ELSE Returns(HTTP_201_CREATED, _row_to_recipe_out(out["value"]))

\* get_recipe: the parameter tuple of the SELECT.
get_recipe_params(i) == <<i>>

\* get_recipe without the test of the row (a faulty variant of get_recipe).
get_recipe_unchecked(out) ==
    IF out["kind"] = "raise" THEN Unhandled(out)
    ELSE IF out["value"] = NoRow THEN Unhandled(out)
    ELSE Returns(HTTP_200_OK, _row_to_recipe_out(out["value"]))

\* get_recipe: if not row: raise HTTPException(404)
get_recipe(out) ==
    IF out["kind"] = "raise" THEN Unhandled(out)
    ELSE IF out["value"] = NoRow
         THEN Response(HTTP_404_NOT_FOUND, NotFoundBody)
    ELSE Returns(HTTP_200_OK, _row_to_recipe_out(out["value"]))

\* update_recipe: the parameter tuple of the UPDATE.
update_recipe_params(i, p) ==
    <<p["title"], p["description"], p["ingredients"], p["instructions"], i>>

\* update_recipe: no try around the adapter call, so whatever it raises
\* is unhandled; the test of the row follows the call.
update_recipe(out) ==
    IF out["kind"] = "raise" THEN Unhandled(out)
    ELSE IF out["value"] = NoRow
         THEN Response(HTTP_404_NOT_FOUND, NotFoundBody)
    ELSE Returns(HTTP_200_OK, _row_to_recipe_out(out["value"]))

\* delete_recipe: the parameter tuple of the DELETE.
delete_recipe_params(i) == <<i>>

\* delete_recipe: except RuntimeError: raise HTTPException(404), whatever
\* raised the RuntimeError.
delete_recipe(out) ==
    IF out["kind"] = "raise" /\ out["exc"] = "RuntimeError"
    THEN Response(HTTP_404_NOT_FOUND, NotFoundBody)
    ELSE IF out["kind"] = "raise" THEN Unhandled(out)
    ELSE Returns(HTTP_200_OK, _row_to_recipe_out(out["value"]))

\* The handler of a request, applied to what its adapter call gave.
Handle(o, out) ==
    CASE o = "list" -> list_recipes(out)
      [] o = "create" -> create_recipe(out)
      [] o = "get" -> get_recipe(out)
      [] o = "update" -> update_recipe(out)
      [] o = "delete" -> delete_recipe(out)

\* ------------------------------------------------------ the requests
Ops == {"list", "create", "get", "update", "delete"}
ReadOps == {"list", "get"}
WriteOps == {"create", "update", "delete"}

Init ==
    /\ dbUrlSet \in BOOLEAN
    /\ table = {}
    /\ seq = 1
    /\ pc = [w \in Workers |-> "idle"]
    /\ op = [w \in Workers |-> "none"]
    /\ rid = [w \in Workers |-> 0]
    /\ payload = [w \in Workers |-> NoPayload]
    /\ row = [w \in Workers |-> NoRow]
    /\ status = [w \in Workers |-> 0]
    /\ body = [w \in Workers |-> NoBody]
    /\ raised = [w \in Workers |-> "none"]
    /\ opened = [w \in Workers |-> 0]
    /\ closed = [w \in Workers |-> 0]
    /\ commits = [w \in Workers |-> 0]
    /\ deleted = {}

\* The response leaves the handler.
Finish(w, out, resp) ==
    /\ pc' = [pc EXCEPT ![w] = "done"]
    /\ status' = [status EXCEPT ![w] = resp["status"]]
    /\ body' = [body EXCEPT ![w] = resp["body"]]
    /\ raised' = [raised EXCEPT ![w] = Cause(out)]
    /\ row' = [row EXCEPT ![w] = NoRow]

\* A request arrives: the framework binds the path parameter and validates
\* the body against the payload model before the handler runs.
Accept(w, o, i, p, valid) ==
    /\ op' = [op EXCEPT ![w] = o]
    /\ rid' = [rid EXCEPT ![w] = i]
    /\ payload' = [payload EXCEPT ![w] = p]
    /\ IF valid
       THEN /\ pc' = [pc EXCEPT ![w] = "validated"]
            /\ UNCHANGED <<status, body, raised, row>>
       ELSE Finish(w, Ok(NoRow),
                   Response(HTTP_422_UNPROCESSABLE, ValidationBody))
    /\ UNCHANGED <<env, deleted, store, conn>>

\* Creates that will still draw from the id sequence.
PendingCreates ==
    {w \in Workers : op[w] = "create" /\ pc[w] \in {"validated", "open"}}

ListRequest(w) ==
    /\ pc[w] = "idle"
    /\ Accept(w, "list", 0, NoPayload, TRUE)

CreateRequest(w) ==
    /\ pc[w] = "idle"
    /\ \E p \in Payloads :
        /\ RecipeCreate(p) => seq + Cardinality(PendingCreates) <= MaxId
        /\ Accept(w, "create", 0, p, RecipeCreate(p))

GetRequest(w) ==
    /\ pc[w] = "idle"
    /\ \E i \in RecipeIds : Accept(w, "get", i, NoPayload, TRUE)

UpdateRequest(w) ==
    /\ pc[w] = "idle"
    /\ \E i \in RecipeIds, p \in Payloads :
        Accept(w, "update", i, p, RecipeUpdate(p))

DeleteRequest(w) ==
    /\ pc[w] = "idle"
    /\ \E i \in RecipeIds : Accept(w, "delete", i, NoPayload, TRUE)

\* get_connection, entering the with block: _get_database_url(), then
\* psycopg2.connect, which opens the connection or raises.
Connect(w) ==
    /\ pc[w] = "validated"
    /\ LET url == _get_database_url(dbUrlSet)
       IN IF url["kind"] = "raise"
          THEN /\ Finish(w, url, Handle(op[w], url))
               /\ UNCHANGED opened
          ELSE \/ /\ pc' = [pc EXCEPT ![w] = "open"]
                  /\ opened' = [opened EXCEPT ![w] = @ + 1]
                  /\ UNCHANGED <<status, body, raised, row>>
               \/ /\ Finish(w, DbFault("connect"),
                            Handle(op[w], DbFault("connect")))
                  /\ UNCHANGED opened
    /\ UNCHANGED <<env, deleted, store, op, rid, payload, closed, commits>>

\* The with block is left: the adapter call returns or raises `out`, and
\* the handler makes its response of it.
Leave(w, out) ==
    /\ closed' = [closed EXCEPT ![w] = @ + get_connection_exit(out)]
    /\ Finish(w, out, Handle(op[w], out))

\* fetch_all / fetch_one: one SELECT on the committed table.
ExecRead(w) ==
    /\ pc[w] = "open"
    /\ op[w] \in ReadOps
    /\ \/ Leave(w, IF op[w] = "list"
                   THEN fetch_all(SqlSelectAll(table))
                   ELSE fetch_one(SqlSelectById(table,
                                                get_recipe_params(rid[w]))))
       \/ Leave(w, DbFault("execute"))
    /\ UNCHANGED <<env, deleted, store, op, rid, payload, opened, commits>>

\* The rows another transaction has written and not yet committed are
\* locked: a statement on one of them waits for that transaction to end.
Locked(w, i) ==
    \E v \in Workers \ {w} :
        pc[v] = "executed" /\ op[v] \in {"update", "delete"} /\ rid[v] = i

\* What the write statement of a request does to table t.
Statement(w, t, newId) ==
    CASE op[w] = "create" ->
            SqlInsert(t, newId, create_recipe_params(payload[w]))
      [] op[w] = "update" ->
            SqlUpdate(t, update_recipe_params(rid[w], payload[w]))
      [] op[w] = "delete" ->
            SqlDelete(t, delete_recipe_params(rid[w]))

\* execute_returning_one up to the test of the fetched row: cur.execute,
\* cur.fetchone, and RuntimeError when there is no row.
ExecWrite(w) ==
    /\ pc[w] = "open"
    /\ op[w] \in WriteOps
    /\ op[w] # "create" => ~Locked(w, rid[w])
    /\ \/ LET id == Nextval(seq)
              res == Statement(w, table, id["value"])
              out == execute_returning_one(res["rows"])
          IN /\ seq' = IF op[w] = "create" THEN id["next"] ELSE seq
             /\ IF out["kind"] = "ok"
                THEN /\ pc' = [pc EXCEPT ![w] = "executed"]
                     /\ row' = [row EXCEPT ![w] = out["value"]]
                     /\ UNCHANGED <<status, body, raised, closed>>
                ELSE Leave(w, out)
             /\ UNCHANGED <<table, commits>>
       \/ /\ Leave(w, DbFault("execute"))
          /\ UNCHANGED <<store, commits>>
    /\ UNCHANGED <<env, deleted, op, rid, payload, opened>>

\* execute_returning_one from conn.commit() on: the write becomes visible,
\* or the commit fails and closing the connection rolls it back.
Commit(w) ==
    /\ pc[w] = "executed"
    /\ \/ /\ table' = Statement(w, table, row[w]["id"])["next"]
          /\ commits' = [commits EXCEPT ![w] = @ + 1]
          /\ deleted' = IF op[w] = "delete"
                        THEN deleted \cup {rid[w]} ELSE deleted
          /\ Leave(w, Ok(dict(row[w])))
       \/ /\ Leave(w, DbFault("commit"))
          /\ UNCHANGED <<table, commits, deleted>>
    /\ UNCHANGED <<env, seq, op, rid, payload, opened>>

\* The response has been sent; the worker takes the next request.
Return(w) ==
    /\ pc[w] = "done"
    /\ pc' = [pc EXCEPT ![w] = "idle"]
    /\ op' = [op EXCEPT ![w] = "none"]
    /\ rid' = [rid EXCEPT ![w] = 0]
    /\ payload' = [payload EXCEPT ![w] = NoPayload]
    /\ row' = [row EXCEPT ![w] = NoRow]
    /\ status' = [status EXCEPT ![w] = 0]
    /\ body' = [body EXCEPT ![w] = NoBody]
    /\ raised' = [raised EXCEPT ![w] = "none"]
    /\ opened' = [opened EXCEPT ![w] = 0]
    /\ closed' = [closed EXCEPT ![w] = 0]
    /\ commits' = [commits EXCEPT ![w] = 0]
    /\ UNCHANGED <<env, deleted, store>>

Next ==
    \E w \in Workers :
        \/ ListRequest(w)
        \/ CreateRequest(w)
        \/ GetRequest(w)
        \/ UpdateRequest(w)
        \/ DeleteRequest(w)
        \/ Connect(w)
        \/ ExecRead(w)
        \/ ExecWrite(w)
        \/ Commit(w)
        \/ Return(w)

Spec == Init /\ [][Next]_vars

\* ------------------------------------------------------ the claims
\* What the claims speak of, in the terms of the specification.
InfrastructureFaults == {"no_url", "connect", "execute", "commit"}

\* The adapter call of worker w ran against a working database.
NoFault(w) == raised'[w] \notin InfrastructureFaults

\* Worker w leaves its adapter call with this step.
Answers(w, from, o) == pc[w] = from /\ op[w] = o /\ pc'[w] = "done"

\* The recipe made of payload p under id i.
Recipe(i, p) ==
    [id |-> i, title |-> p["title"], description |-> p["description"],
     ingredients |-> p["ingredients"], instructions |-> p["instructions"]]

\* What a Get and a List answer on committed table t.
GetOn(t, i) == Handle("get", fetch_one(SqlSelectById(t, get_recipe_params(i))))
ListOn(t) == Handle("list", fetch_all(SqlSelectAll(t)))

\* C1: an Update of an id that is not in the store, with a valid payload
\* and a working database, is answered 404 Not Found: never a server
\* error, never a success.
C1_UpdateMissingIsNotFound ==
    [][\A w \in Workers :
        (Answers(w, "open", "update") /\ rid[w] \notin Ids(table) /\ NoFault(w))
            => status'[w] = HTTP_404_NOT_FOUND]_vars

\* C2: a Get or a Delete of an id that is not in the store, with a
\* working database, is answered 404 Not Found and leaves the store as
\* it was.
C2_GetDeleteMissingIsNotFound ==
    [][\A w \in Workers :
        ((Answers(w, "open", "get") \/ Answers(w, "open", "delete"))
            /\ rid[w] \notin Ids(table) /\ NoFault(w))
            => /\ status'[w] = HTTP_404_NOT_FOUND
               /\ body'[w] = NotFoundBody
               /\ commits'[w] = 0
               /\ store' = store]_vars

\* A Get and a Delete of missing ids have both been answered 404.
C2_Witness ==
    /\ pc["w1"] = "done" /\ op["w1"] = "get" /\ raised["w1"] = "none"
    /\ rid["w1"] \notin Ids(table) /\ status["w1"] = HTTP_404_NOT_FOUND
    /\ pc["w2"] = "done" /\ op["w2"] = "delete" /\ raised["w2"] = "empty"
    /\ rid["w2"] \notin Ids(table) /\ status["w2"] = HTTP_404_NOT_FOUND
    /\ table # {}

\* C3: a Get, Update or Delete whose adapter call failed for lack of the
\* connection string or by a database fault is answered with a server
\* error, never 404.
C3_FaultIsServerError ==
    \A w \in Workers :
        (pc[w] = "done" /\ op[w] \in {"get", "update", "delete"}
            /\ raised[w] \in InfrastructureFaults)
            => status[w] = HTTP_500_SERVER_ERROR

\* C4: an Update that succeeds answers the payload under the unchanged
\* id, a Get that follows answers the same, the row holds none of its
\* prior values, and every other row is as it was.
C4_UpdateIsFullReplacement ==
    [][\A w \in Workers :
        (Answers(w, "executed", "update") /\ status'[w] = HTTP_200_OK)
            => LET new == Recipe(rid[w], payload[w])
               IN /\ body'[w] = new
                  /\ GetOn(table', rid[w]) = Response(HTTP_200_OK, new)
                  /\ {r \in table' : r["id"] = rid[w]} = {new}
                  /\ {r \in table' : r["id"] # rid[w]}
                        = {r \in table : r["id"] # rid[w]}]_vars

\* An Update has replaced a row that held other values, beside another
\* row.
C4_Witness ==
    \E w \in Workers :
        /\ pc[w] = "done" /\ op[w] = "update" /\ status[w] = HTTP_200_OK
        /\ payload[w] = SoupV2 /\ body[w] \in table
        /\ \E r \in table : r["id"] # rid[w] /\ r["title"] # body[w]["title"]

\* C5: a Delete that succeeds answers the row as it was stored and
\* removes it, leaving every other row; from then on the id is in no
\* List, and each Get, Update and Delete of it is answered 404.
C5_DeleteRemoves ==
    [][/\ \A w \in Workers :
            (Answers(w, "executed", "delete") /\ status'[w] = HTTP_200_OK)
                => /\ body'[w] \in table /\ body'[w]["id"] = rid[w]
                   /\ table' = table \ {body'[w]}
                   /\ rid[w] \in deleted'
       /\ deleted \subseteq deleted'
       /\ \A i \in deleted' :
            /\ i \notin Ids(table')
            /\ \A k \in 1..Len(ListOn(table')["body"]) :
                    ListOn(table')["body"][k]["id"] # i
       /\ \A w \in Workers :
            (pc[w] = "open" /\ pc'[w] = "done" /\ rid[w] \in deleted
                /\ op[w] \in {"get", "update", "delete"} /\ NoFault(w))
                => status'[w] = HTTP_404_NOT_FOUND]_vars

\* C6: a Create with a valid payload, on a working database, answers 201
\* with the payload under an id no stored row has, and a Get of that id
\* that follows answers the same record.
C6_CreateRoundTrip ==
    [][\A w \in Workers :
        /\ ~(Answers(w, "open", "create") /\ NoFault(w))
        /\ (Answers(w, "executed", "create") /\ NoFault(w))
            => /\ status'[w] = HTTP_201_CREATED
               /\ body'[w]["id"] \in Int
               /\ body'[w]["id"] \notin Ids(table)
               /\ body'[w] = Recipe(body'[w]["id"], payload[w])
               /\ GetOn(table', body'[w]["id"])
                    = Response(HTTP_200_OK, body'[w])]_vars

\* A Create has been answered 201 on a store that held a row already.
C6_Witness ==
    \E w \in Workers :
        /\ pc[w] = "done" /\ op[w] = "create"
        /\ status[w] = HTTP_201_CREATED
        /\ body[w] \in table /\ Cardinality(table) >= 2

\* C7: on a working database List answers 200 with every stored row,
\* each once, in strictly descending order of id (the empty sequence for
\* the empty store), and leaves the store as it was.
C7_ListIsCompleteAndDescending ==
    [][\A w \in Workers :
        (Answers(w, "open", "list") /\ NoFault(w))
            => LET out == body'[w]
               IN /\ status'[w] = HTTP_200_OK
                  /\ Len(out) = Cardinality(table)
                  /\ {out[k] : k \in 1..Len(out)} = table
                  /\ \A k \in 1..(Len(out) - 1) : out[k]["id"] > out[k + 1]["id"]
                  /\ store' = store]_vars

\* A List has answered two rows, one of them updated since its creation.
C7_Witness ==
    \E w \in Workers :
        /\ pc[w] = "done" /\ op[w] = "list" /\ status[w] = HTTP_200_OK
        /\ Len(body[w]) >= 2
        /\ body[w][1]["title"] # body[w][2]["title"]

\* A payload that violates a field constraint of the specification.
ViolatesConstraint(p) ==
    \/ \E f \in Fields : f \notin DOMAIN p
    \/ \E f \in Fields \cap DOMAIN p : p[f] = 0
    \/ "title" \in DOMAIN p /\ p["title"] > 200
    \/ "description" \in DOMAIN p /\ p["description"] > 2000

\* C8: a Create or Update whose payload violates a field constraint is
\* answered 422 with no adapter call: no connection opened, no commit,
\* the store as it was, whether the id of the Update exists or not.
C8_InvalidNeverReachesAdapter ==
    /\ [](\A w \in Workers :
            (op[w] \in {"create", "update"} /\ ViolatesConstraint(payload[w]))
                => /\ pc[w] = "done"
                   /\ status[w] = HTTP_422_UNPROCESSABLE
                   /\ status[w] # HTTP_404_NOT_FOUND
                   /\ opened[w] = 0 /\ commits[w] = 0)
    /\ [][\A w \in Workers :
            (pc[w] = "idle" /\ pc'[w] # "idle" /\ op'[w] \in {"create", "update"}
                /\ ViolatesConstraint(payload'[w]))
                => store' = store]_vars

\* Invalid Updates of a stored id and of a missing id have been answered.
C8_Witness ==
    /\ pc["w1"] = "done" /\ op["w1"] = "update"
    /\ ViolatesConstraint(payload["w1"]) /\ rid["w1"] \in Ids(table)
    /\ pc["w2"] = "done" /\ op["w2"] = "update"
    /\ ViolatesConstraint(payload["w2"]) /\ rid["w2"] \notin Ids(table)

\* C9: an adapter call opens at most one connection, exactly one once it
\* has connected, and has closed it when it returns or raises; no
\* connection of a completed request is open, and a write that ended in
\* the empty-result error was not committed.
C9_ConnectionScoped ==
    \A w \in Workers :
        /\ opened[w] <= 1 /\ closed[w] <= opened[w]
        /\ pc[w] \in {"open", "executed"} => (opened[w] = 1 /\ closed[w] = 0)
        /\ pc[w] \in {"idle", "validated", "done"} => closed[w] = opened[w]
        /\ (pc[w] = "done" /\ raised[w] \in {"execute", "commit", "empty"})
            => (opened[w] = 1 /\ closed[w] = 1)
        /\ (pc[w] = "done" /\ raised[w] = "none"
                /\ status[w] # HTTP_422_UNPROCESSABLE)
            => (opened[w] = 1 /\ closed[w] = 1)
        /\ (pc[w] = "done" /\ raised[w] \in {"execute", "commit", "empty"})
            => commits[w] = 0

\* One request ended in the empty-result error and one in a failed
\* statement, both with their connection closed.
C9_Witness ==
    /\ pc["w1"] = "done" /\ raised["w1"] = "empty" /\ closed["w1"] = 1
    /\ pc["w2"] = "done" /\ raised["w2"] = "execute" /\ closed["w2"] = 1

\* C10: no two stored recipes share an id, a stored recipe keeps its id
\* until a Delete of that id removes it, and every stored recipe has a
\* title of length 1..200, a description of length 1..2000 and non-empty
\* ingredients and instructions.
C10_StoreInvariant ==
    /\ [](/\ \A r, q \in table : r["id"] = q["id"] => r = q
          /\ \A r \in table :
                /\ r["title"] >= 1 /\ r["title"] <= 200
                /\ r["description"] >= 1 /\ r["description"] <= 2000
                /\ r["ingredients"] >= 1 /\ r["instructions"] >= 1)
    /\ [][\A r \in table :
            \/ r["id"] \in Ids(table')
            \/ \E w \in Workers :
                Answers(w, "executed", "delete") /\ rid[w] = r["id"]]_vars

\* Two recipes are stored, one of them just replaced by an Update, the
\* other just created.
C10_Witness ==
    /\ Cardinality(table) = 2
    /\ \E w \in Workers : pc[w] = "done" /\ op[w] = "update"
                            /\ status[w] = HTTP_200_OK /\ body[w] \in table
    /\ \E w \in Workers : pc[w] = "done" /\ op[w] = "create"
                            /\ status[w] = HTTP_201_CREATED

====
